---- MODULE Spec2Model ----
(***************************************************************************)
(* Model of backend/main.py: the conversational query pipeline             *)
(* (process_pronoun_references, the three query tiers of query_data,       *)
(* format_answer, create_full_response) and the session / conversation     *)
(* stores behind the request surface.                                      *)
(*                                                                         *)
(* Text.  A Python str is a sequence of atoms.  Every Chinese character    *)
(* the code inspects is one atom, written in pinyin (with a gloss where     *)
(* two characters share a reading): "ping","jun" is the word for           *)
(* "average", "bu","men" is "department", "ta_he","men_pl" is "they".      *)
(* Latin text that no rule looks into is one atom per literal chunk.       *)
(* Substring tests, replace, split, strip and the regular expressions work *)
(* on atoms exactly as the Python operations work on characters.           *)
(***************************************************************************)
EXTENDS Integers, Sequences, FiniteSets, TLC

\* ------------------------------------------------------------------ text

StartsWithAt(s, i, p) ==
  /\ i >= 1
  /\ i + Len(p) - 1 <= Len(s)
  /\ \A k \in 1..Len(p) : s[i + k - 1] = p[k]

\* Python: p in s
Contains(s, p) == \E i \in 1..(Len(s) + 1) : StartsWithAt(s, i, p)

\* Python: s.startswith(p)
StartsWith(s, p) == StartsWithAt(s, 1, p)

\* first index at or after i where p occurs in s, 0 when there is none
RECURSIVE FindFrom(_, _, _)
FindFrom(s, p, i) ==
  IF i + Len(p) - 1 > Len(s) THEN 0
  ELSE IF StartsWithAt(s, i, p) THEN i
  ELSE FindFrom(s, p, i + 1)

\* Python: s.replace(old, new) for a non-empty old: every non-overlapping
\* occurrence, left to right
RECURSIVE Replace(_, _, _)
\* the replacement, given the index i of the first occurrence (0 for none)
ReplaceAt(s, old, new, i) ==
  IF i = 0 THEN s
  ELSE SubSeq(s, 1, i - 1) \o new \o
       Replace(SubSeq(s, i + Len(old), Len(s)), old, new)

Replace(s, old, new) == ReplaceAt(s, old, new, FindFrom(s, old, 1))

\* Python: s.split(sep) for a non-empty sep
RECURSIVE Split(_, _)
\* the pieces, given the index i of the first separator (0 for none)
SplitAt(s, sep, i) ==
  IF i = 0 THEN <<s>>
  ELSE <<SubSeq(s, 1, i - 1)>> \o Split(SubSeq(s, i + Len(sep), Len(s)), sep)

Split(s, sep) == SplitAt(s, sep, FindFrom(s, sep, 1))

\* the atoms str.strip() and str.split() treat as whitespace
WhiteSpace == {" ", "NL"}

\* the atoms that are not matched by \w: whitespace, punctuation, markup
NonWord == WhiteSpace \cup
  {",", ", ", ":", ": ", ".", ";", "--", "FENCE", "**", "MAG", "(", ")", "?",
   "c_comma", "c_colon", "c_period", "c_qmark", "BULLET", "..."}

IsWord(a) == a \notin NonWord
IsSpace(a) == a \in WhiteSpace

RECURSIVE LStrip(_)
LStrip(s) ==
  IF s # <<>> /\ IsSpace(s[1]) THEN LStrip(Tail(s)) ELSE s

RECURSIVE RStrip(_)
RStrip(s) ==
  IF s # <<>> /\ IsSpace(s[Len(s)]) THEN RStrip(SubSeq(s, 1, Len(s) - 1)) ELSE s

\* Python: s.strip()
Strip(s) == LStrip(RStrip(s))

\* Python: s.lstrip(NL)
RECURSIVE LStripNL(_)
LStripNL(s) ==
  IF s # <<>> /\ s[1] = "NL" THEN LStripNL(Tail(s)) ELSE s

\* Python: s.split() : the maximal runs of non-whitespace atoms
RECURSIVE Words(_)
\* the index of the first whitespace atom at or after i, Len(t) + 1 for none
RECURSIVE FirstSpace(_, _)
FirstSpace(t, i) ==
  IF i > Len(t) \/ IsSpace(t[i]) THEN i ELSE FirstSpace(t, i + 1)

\* the words of t, which does not start with whitespace and whose first
\* word ends before e
WordsCut(t, e) ==
  IF t = <<>> THEN <<>>
  ELSE <<SubSeq(t, 1, e - 1)>> \o Words(SubSeq(t, e, Len(t)))

Words(s) == WordsCut(LStrip(s), FirstSpace(LStrip(s), 1))

\* Python: ' '.join(words)
RECURSIVE JoinSpace(_)
JoinSpace(ws) ==
  IF ws = <<>> THEN <<>>
  ELSE IF Len(ws) = 1 THEN ws[1]
  ELSE ws[1] \o <<" ">> \o JoinSpace(Tail(ws))

\* Python: str.lower() on one atom (Chinese characters have no case)
LowerAtom(a) ==
  CASE a = "COUNT" -> "count"
    [] a = "Count" -> "count"
    [] a = "Fossil" -> "fossil"
    [] a = "SELECT" -> "select"
    [] a = "WITH" -> "with"
    [] OTHER -> a

Lower(s) == [k \in 1..Len(s) |-> LowerAtom(s[k])]

\* the number of characters an atom stands for (len() counts characters)
CharLen(a) ==
  CASE a \in {"count", "COUNT", "Count"} -> 5
    [] a \in {"fossil", "Fossil"} -> 6
    [] a = "10" -> 2
    [] OTHER -> 1

RECURSIVE StrLen(_)
StrLen(s) == IF s = <<>> THEN 0 ELSE CharLen(s[1]) + StrLen(Tail(s))

IsDigits(a) == a \in {"1", "5", "10", "20"}

\* re.findall(r'\d+', s)[0] : the first run of digits, <<>> when there is none
RECURSIVE FirstDigit(_, _)
FirstDigit(s, i) ==
  IF i > Len(s) \/ IsDigits(s[i]) THEN i ELSE FirstDigit(s, i + 1)

RECURSIVE DigitsEnd(_, _)
DigitsEnd(s, i) ==
  IF i <= Len(s) /\ IsDigits(s[i]) THEN DigitsEnd(s, i + 1) ELSE i - 1

FirstNumber(s) == SubSeq(s, FirstDigit(s, 1), DigitsEnd(s, FirstDigit(s, 1)))

\* --------------------------------------------------- regular expressions
\* One alternative of a pattern: kind "cs" is  [class]+literal  (class "w"
\* is \w, class "ws" is [\w\s]), kind "pw" is  literal\w+ ; ci is
\* re.IGNORECASE.  The whole match is the captured group in every pattern
\* of the source but (\w+)bu-men, whose caller appends bu-men again.

InClass(a, cls) == IF cls = "ws" THEN IsWord(a) \/ IsSpace(a) ELSE IsWord(a)

\* the literal lit stands at position i of s
LitAt(s, i, lit, ci) ==
  /\ i >= 1
  /\ i + Len(lit) - 1 <= Len(s)
  /\ \A k \in 1..Len(lit) :
       IF ci THEN LowerAtom(s[i + k - 1]) = LowerAtom(lit[k])
       ELSE s[i + k - 1] = lit[k]

\* the last index of the run of atoms of class cls that starts at i (i - 1
\* when s[i] is not of the class)
RECURSIVE RunEnd(_, _, _)
RunEnd(s, i, cls) ==
  IF i <= Len(s) /\ InClass(s[i], cls) THEN RunEnd(s, i + 1, cls) ELSE i - 1

\* the end index of the greedy match of alternative alt at position i, 0
\* when it does not match there
\* the end of the match whose literal of n atoms starts at the greatest of
\* the positions starts; 0 when there is none
GreedyEnd(starts, n) ==
  IF starts = {} THEN 0
  ELSE (CHOOSE j \in starts : \A m \in starts : m <= j) + n - 1

\* literal then \w+ : the end of the word run that starts at b
WordRunEnd(s, b) ==
  IF b <= Len(s) /\ IsWord(s[b]) THEN RunEnd(s, b, "w") ELSE 0

MatchAt(s, i, alt) ==
  IF alt.kind = "cs"
  THEN GreedyEnd({j \in (i + 1)..(RunEnd(s, i, alt.cls) + 1) :
                    LitAt(s, j, alt.lit, alt.ci)},
                 Len(alt.lit))
  ELSE IF LitAt(s, i, alt.lit, alt.ci) THEN WordRunEnd(s, i + Len(alt.lit))
       ELSE 0

\* the first alternative, in order, that matches at i; 0 when none does
RECURSIVE FirstAltAt(_, _, _, _)
\* e when alternative n matched up to e, else what the alternatives after
\* n give
AltOrNext(s, i, alts, n, e) ==
  IF e # 0 THEN e ELSE FirstAltAt(s, i, alts, n + 1)

FirstAltAt(s, i, alts, n) ==
  IF n > Len(alts) THEN 0
  ELSE AltOrNext(s, i, alts, n, MatchAt(s, i, alts[n]))

\* re.search(pattern, s): the leftmost match, <<>> when there is none (no
\* pattern of the source matches the empty string)
RECURSIVE SearchFrom(_, _, _)
\* the match s[i..e] when one ends at e, else the search from i + 1
MatchOrNext(s, alts, i, e) ==
  IF e # 0 THEN SubSeq(s, i, e) ELSE SearchFrom(s, alts, i + 1)

SearchFrom(s, alts, i) ==
  IF i > Len(s) THEN <<>>
  ELSE MatchOrNext(s, alts, i, FirstAltAt(s, i, alts, 1))

Search(s, alts) == SearchFrom(s, alts, 1)

ClsLit(cls, lit) == [kind |-> "cs", cls |-> cls, lit |-> lit, ci |-> FALSE]
LitWord(lit) == [kind |-> "pw", cls |-> "w", lit |-> lit, ci |-> FALSE]
ClsLitCI(cls, lit) == [kind |-> "cs", cls |-> cls, lit |-> lit, ci |-> TRUE]


\* ----------------------------------------------------------- vocabulary
\* The literals of the source, atom by atom.

pingjun == <<"ping", "jun">>                \* average
gongzi == <<"gong", "zi">>                  \* wages
xinzi == <<"xin", "zi">>                    \* salary
bumen == <<"bu", "men">>                    \* department
zuigao == <<"zui", "gao">>                  \* highest
zuida == <<"zui", "da">>                    \* largest
zuidi == <<"zui", "di">>                    \* lowest
zuixiao == <<"zui", "xiao">>                \* smallest
huashi == <<"hua", "shi_stone">>            \* fossil
duoshao == <<"duo", "shao">>                \* how many
shuliang == <<"shu", "liang">>              \* quantity
hang == <<"hang">>                          \* row
qian == <<"qian">>                          \* first / top
tiao == <<"tiao">>                          \* (measure word for records)
ren == <<"ren">>                            \* person
ge_each == <<"ge_each">>                    \* each
suoyou == <<"suo", "you">>                  \* all
de == <<"de">>                              \* (possessive particle)
tamen == <<"ta_he", "men_pl">>              \* they (persons)
ta_it == <<"ta_it">>                        \* it
zhege == <<"zhe", "ge">>                    \* this
zhexie == <<"zhe", "xie">>                  \* these
nayinian == <<"na_which", "yi", "nian">>    \* which year
shenmeshihou == <<"shen", "me", "shi_time", "hou">>   \* when
zainali == <<"zai", "na_which", "li">>      \* where
nagedifang == <<"na_which", "ge", "di_place", "fang">>  \* which place
shu_genus == <<"shu_genus">>                \* genus
yangpin == <<"yang", "pin">>                \* sample
zuizaode == <<"zui", "zao", "de">>          \* the earliest
wobuzhidao == <<"wo", "bu_not", "zhi", "dao">>   \* I do not know
pingjungongzizuigao == pingjun \o gongzi \o zuigao
pingjungongzizuigaodebumen == pingjungongzizuigao \o de \o bumen

\* pronouns of has_pronoun_reference
pronouns ==
  <<tamen, <<"ta_it", "men_pl">>, zhege, zhexie, <<"na_that", "ge">>,
    <<"na_that", "xie">>, <<"ta_he">>, <<"ta_she">>, ta_it, <<"qi">>, <<"ci">>>>

\* context_indicators of has_implicit_context_reference
context_indicators ==
  <<nayinian, shenmeshihou, zainali, <<"zen", "me">>, <<"wei", "shen", "me">>,
    duoshao, <<"shi_be", "na_which">>, <<"shi_be", "shen", "me">>,
    <<"shi_be", "shei">>, <<"shi_be", "zen", "me">>, <<"you", "duo">>,
    <<"you", "shen", "me">>>>

\* the interrogative words of the short follow-up test
question_tokens ==
  <<<<"shen", "me">>, <<"na_which">>, <<"zen", "me">>, <<"wei", "shen", "me">>,
    duoshao, <<"he", "shi_time">>>>

AnyOf(s, ps) == \E k \in 1..Len(ps) : Contains(s, ps[k])

\* --------------------------------------------------- reference resolver

\* the text of the trace marker that opens a full response
trace_marker == <<"MAG", " ", "**", "SQL", "cha", "xun", "**", ":">>

\* parts[2].strip().lstrip(NL).strip() when there are three parts
AnswerPart(parts, full_response) ==
  IF Len(parts) >= 3 THEN Strip(LStripNL(Strip(parts[3])))
  ELSE full_response

extract_answer_from_full_response(full_response) ==
  IF Contains(full_response, trace_marker)
  THEN AnswerPart(Split(full_response, <<"FENCE">>), full_response)
  ELSE full_response

has_implicit_context_reference(question, conversation_history) ==
  IF conversation_history = <<>> THEN FALSE
  ELSE \/ /\ \E k \in 1..Len(context_indicators) :
               StartsWith(Lower(question), context_indicators[k])
          /\ StrLen(Strip(question)) < 30
       \/ /\ Len(Words(Strip(question))) <= 8
          /\ AnyOf(Lower(question), question_tokens)

has_pronoun_reference(question) == AnyOf(question, pronouns)

\* rule (a): the collective pronoun, replaced by the department matched in
\* the last narrative
TheyBy(processed, last_answer, dept_match) ==
  IF dept_match # <<>>
  THEN Replace(processed, tamen, dept_match)
  ELSE IF \/ Contains(last_answer, pingjungongzizuigaodebumen)
          \/ Contains(last_answer, pingjun \o xinzi \o zuigao)
       THEN Replace(processed, tamen, pingjungongzizuigaodebumen)
       ELSE processed

RuleThey(question, processed, last_answer) ==
  IF Contains(question, tamen) /\ Contains(last_answer, bumen)
  THEN TheyBy(processed, last_answer, Search(last_answer, <<ClsLit("w", bumen)>>))
  ELSE processed

entity_patterns ==
  <<ClsLit("w", shu_genus), ClsLit("w", yangpin), ClsLit("w", <<"ji_period">>),
    ClsLit("w", huashi)>>

\* the first pattern of entity_patterns, in order, found in the answer
RECURSIVE FirstEntity(_, _)
EntityOrNext(last_answer, n, match) ==
  IF match # <<>> THEN match ELSE FirstEntity(last_answer, n + 1)

FirstEntity(last_answer, n) ==
  IF n > Len(entity_patterns) THEN <<>>
  ELSE EntityOrNext(last_answer, n, Search(last_answer, <<entity_patterns[n]>>))

ItBy(processed, entity) ==
  IF entity # <<>> THEN Replace(processed, ta_it, entity) ELSE processed

\* rule (b): the object pronoun
RuleIt(question, processed, last_answer) ==
  IF Contains(question, ta_it)
  THEN ItBy(processed, FirstEntity(last_answer, 1))
  ELSE processed

\* rule (d): the implicit time / place question, prefixed by an entity
\* f"{entity}{processed_question}" when the search found an entity
Prefixed(entity_match, processed) ==
  IF entity_match # <<>> THEN entity_match \o processed ELSE processed

\* the time question: the fossil name, else the other entities
WhenBy(processed, last_answer, fossil_match) ==
  IF fossil_match # <<>> THEN fossil_match \o processed
  ELSE IF Search(last_answer, <<ClsLit("w", shu_genus), LitWord(zuizaode)>>) # <<>>
       THEN Prefixed(Search(last_answer, <<LitWord(zuizaode), ClsLit("w", shu_genus),
                                           ClsLit("w", yangpin)>>),
                     processed)
       ELSE processed

\* RuleImplicit without the test for a time or place word: every implicit
\* follow-up is prefixed
RuleImplicitAny(question, processed, last_answer, conversation_history) ==
  IF has_implicit_context_reference(question, conversation_history)
  THEN Prefixed(Search(last_answer, <<LitWord(zuizaode), ClsLit("w", huashi),
                                      ClsLit("w", shu_genus)>>),
                processed)
  ELSE processed

RuleImplicit(question, processed, last_answer, conversation_history) ==
  IF has_implicit_context_reference(question, conversation_history)
  THEN IF \/ Contains(Lower(question), nayinian)
          \/ Contains(Lower(question), shenmeshihou)
       THEN WhenBy(processed, last_answer,
                   Search(last_answer, <<ClsLitCI("ws", huashi),
                                         ClsLitCI("ws", <<"fossil">>)>>))
       ELSE IF \/ Contains(Lower(question), zainali)
               \/ Contains(Lower(question), nagedifang)
            THEN Prefixed(Search(last_answer, <<LitWord(zuizaode), ClsLit("w", huashi),
                                                ClsLit("w", shu_genus)>>),
                          processed)
            ELSE processed
  ELSE processed

\* rule (c): the demonstrative pronoun, by the topic of the last question
RuleThis(question, processed, last_question) ==
  IF Contains(question, zhege) \/ Contains(question, zhexie)
  THEN IF Contains(last_question, bumen)
       THEN Replace(Replace(processed, zhege, zhege \o bumen),
                    zhexie, zhexie \o bumen)
       ELSE IF Contains(last_question, yangpin) \/ Contains(last_question, huashi)
            THEN Replace(Replace(processed, zhege, zhege \o huashi),
                         zhexie, zhexie \o huashi)
            ELSE processed
  ELSE processed

\* the four rules in the order of the source, each on the outcome of the
\* one before
Resolve(question, conversation_history, last_question, last_answer) ==
  RuleThis(question,
           RuleImplicit(question,
                        RuleIt(question,
                               RuleThey(question, question, last_answer),
                               last_answer),
                        last_answer, conversation_history),
           last_question)

process_pronoun_references(question, conversation_history) ==
  IF conversation_history = <<>> THEN question
  ELSE Resolve(question, conversation_history,
               conversation_history[Len(conversation_history)][1],
               extract_answer_from_full_response(
                 conversation_history[Len(conversation_history)][2]))

\* ------------------------------------------------------- query planner

table_name == <<"data_table">>

Sql(body) == <<"SELECT", " ">> \o body

first_n(limit) == Sql(<<"* FROM ">> \o table_name \o <<" LIMIT ">> \o limit)
preview10 == first_n(<<"10">>)
preview20 == first_n(<<"20">>)
select_all == Sql(<<"* FROM ">> \o table_name)
dept_avg(tail) ==
  Sql(<<"department, AVG(salary) as avg_salary FROM ">> \o table_name \o
      <<" GROUP BY department ORDER BY avg_salary ">> \o tail)
dept_avg_desc1 == dept_avg(<<"DESC LIMIT 1">>)
dept_avg_asc1 == dept_avg(<<"ASC LIMIT 1">>)
dept_avg_desc == dept_avg(<<"DESC">>)
plain_avg == Sql(<<"AVG(salary) as avg_salary FROM ">> \o table_name)
dept_max1 ==
  Sql(<<"department, MAX(salary) as max_salary FROM ">> \o table_name \o
      <<" GROUP BY department ORDER BY max_salary DESC LIMIT 1">>)
top_salary1 ==
  Sql(<<"* FROM ">> \o table_name \o <<" ORDER BY salary DESC LIMIT 1">>)
dept_count ==
  Sql(<<"department, COUNT(*) as count FROM ">> \o table_name \o
      <<" GROUP BY department">>)
total_rows == Sql(<<"COUNT(*) as total_rows FROM ">> \o table_name)
dept_count_avg ==
  Sql(<<"department, COUNT(*) as count, AVG(salary) as avg_salary FROM ">> \o
      table_name \o <<" GROUP BY department">>)

generate_contextual_query(processed_question, conversation_history) ==
  IF conversation_history = <<>> THEN preview10
  ELSE LET last_answer == conversation_history[Len(conversation_history)][2] IN
       IF /\ Contains(processed_question, pingjun \o gongzi)
          /\ Contains(last_answer, pingjungongzizuigao)
       THEN dept_avg_desc1
       ELSE preview10

\* tier 1, the clean-up of the text the NL-to-query chain returned ---------

\* line.upper().startswith(('SELECT', 'WITH')): the first atom of the line
\* is a word whose upper-cased text begins with SELECT or WITH
KeywordPrefixed == {"SELECT", "select", "WITH", "with", "Without"}

StartsWithKeyword(line) == line # <<>> /\ line[1] \in KeywordPrefixed

\* the loop over the lines: sql_lines after the lines from n on, given
\* in_sql and the sql_lines collected so far
RECURSIVE CollectLines(_, _, _, _)
\* CollectLine without the test for the opening keyword: every line opens
CollectEvery(lines, n, in_sql, sql_lines, line) ==
  CollectLines(lines, n + 1, TRUE, Append(sql_lines, line))

\* one pass of the loop, for the stripped line n
CollectLine(lines, n, in_sql, sql_lines, line) ==
  IF StartsWithKeyword(line)
  THEN CollectLines(lines, n + 1, TRUE, Append(sql_lines, line))
  ELSE IF in_sql
       THEN IF line # <<>> /\ line[Len(line)] = ";"
            THEN Append(sql_lines, line)
            ELSE IF line # <<>> /\ line[1] # "--"
                 THEN CollectLines(lines, n + 1, in_sql, Append(sql_lines, line))
                 ELSE CollectLines(lines, n + 1, in_sql, sql_lines)
       ELSE CollectLines(lines, n + 1, in_sql, sql_lines)

CollectLines(lines, n, in_sql, sql_lines) ==
  IF n > Len(lines) THEN sql_lines
  ELSE CollectLine(lines, n, in_sql, sql_lines, Strip(lines[n]))

\* sql_lines of the text the chain returned
SqlLines(text) ==
  CollectLines(Split(Strip(Replace(Replace(text, <<"FENCE", "sql">>, <<>>),
                                   <<"FENCE">>, <<>>)),
                     <<"NL">>),
               1, FALSE, <<>>)

\* JoinedOrDefault without the default: an empty sql_lines is joined too
JoinedOnly(sql_lines) == [sql |-> JoinSpace(sql_lines), tier |-> "generated"]

\* ' '.join(sql_lines), or the default preview when sql_lines is empty
JoinedOrDefault(sql_lines) ==
  IF sql_lines # <<>>
  THEN [sql |-> JoinSpace(sql_lines), tier |-> "generated"]
  ELSE [sql |-> preview10, tier |-> "generated_default"]

\* the query of tier 1 for a returned text, with the branch that made it
CleanGenerated(text) == JoinedOrDefault(SqlLines(text))

\* tiers 2 and 3, the keyword table on the original question ---------------

HeuristicQuery(question, processed_question, conversation_history) ==
  LET q == Lower(question)
      has(p) == Contains(q, p)
      H(sql) == [sql |-> sql, tier |-> "heuristic"]
  IN
  IF has(pingjun) /\ (has(gongzi) \/ has(xinzi))
  THEN IF has(bumen)
       THEN IF has(zuigao) \/ has(zuida) THEN H(dept_avg_desc1)
            ELSE IF has(zuidi) \/ has(zuixiao) THEN H(dept_avg_asc1)
            ELSE H(dept_avg_desc)
       ELSE H(plain_avg)
  \* fossil, era ("nian","dai"), time ("shi_time","jian")
  ELSE IF has(huashi) \/ has(<<"nian", "dai">>) \/ has(<<"shi_time", "jian">>)
       THEN H(select_all)
  ELSE IF has(zuigao) /\ (has(gongzi) \/ has(xinzi))
       THEN IF has(bumen) THEN H(dept_max1) ELSE H(top_salary1)
  \* how many rows, row count ("hang","shu"), count
  ELSE IF has(duoshao \o hang) \/ has(<<"hang", "shu">>) \/ has(<<"count">>)
       THEN IF has(bumen) THEN H(dept_count) ELSE H(total_rows)
  ELSE IF has(qian) /\ (has(tiao) \/ has(hang))
       THEN H(first_n(IF FirstNumber(question) # <<>>
                      THEN FirstNumber(question) ELSE <<"10">>))
  ELSE IF has(ge_each) /\ has(bumen) THEN H(dept_count_avg)
  \* all, entire ("quan","bu")
  ELSE IF has(suoyou) \/ has(<<"quan", "bu">>) THEN H(select_all)
  ELSE IF /\ \/ has_pronoun_reference(question)
             \/ has_implicit_context_reference(question, conversation_history)
          /\ conversation_history # <<>>
       THEN [sql |-> generate_contextual_query(processed_question,
                                               conversation_history),
             tier |-> "contextual"]
       ELSE H(preview20)

\* the query handed to execution.  llm is whether create_llm returned an
\* instance, generated is the outcome of chain.invoke: [ok |-> FALSE] when
\* it raised, else [ok |-> TRUE, v |-> the returned text]
PlanQuery(question, processed_question, conversation_history, llm, generated) ==
  IF llm /\ generated.ok
  THEN CleanGenerated(generated.v)
  ELSE HeuristicQuery(question, processed_question, conversation_history)

\* ----------------------------------------------------- result formatter
\* A result is a sequence of rows, a row a sequence of fields
\* [k |-> column name, t |-> "num" or "str", v |-> the text of the value];
\* the empty string that fillna puts for NULL is [t |-> "str", v |-> <<>>].

\* the marker for an exception leaving format_answer
ValueError == <<"ValueError">>

Field(k, t, v) == [k |-> k, t |-> t, v |-> v]

\* '{:.2f}'.format(x) for the numbers of the model
Fixed2Atom(a) ==
  CASE a = "7500.5" -> "7500.50"
    [] a = "3" -> "3.00"
    [] OTHER -> a

Fixed2(f) == [i \in 1..Len(f.v) |-> Fixed2Atom(f.v[i])]

\* ', '.join(f'{k}: {v}' for k, v in row.items())
RECURSIVE KeyValues(_)
KeyValues(row) ==
  IF row = <<>> THEN <<>>
  ELSE row[1].k \o <<": ">> \o row[1].v \o
       (IF Len(row) = 1 THEN <<>> ELSE <<", ">> \o KeyValues(Tail(row)))

\* the numbered lines  i. k: v, k: v NL  of rows i..n
RECURSIVE NumberedRows(_, _, _)
NumberedRows(result, i, n) ==
  IF i > n THEN <<>>
  ELSE <<ToString(i), ".", " ">> \o KeyValues(result[i]) \o <<"NL">> \o
       NumberedRows(result, i + 1, n)

HasKey(row, k) == \E i \in 1..Len(row) : row[i].k = k

\* row.get(k, default)
Get(row, k, default) ==
  IF HasKey(row, k)
  THEN row[CHOOSE i \in 1..Len(row) :
             row[i].k = k /\ \A j \in 1..Len(row) : row[j].k = k => j <= i].v
  ELSE default

GetField(row, k) == row[CHOOSE i \in 1..Len(row) : row[i].k = k]

xingming == <<"xing", "ming">>              \* the column "name"
weizhi == <<"wei_not", "zhi">>              \* unknown
department == <<"department">>
avg_salary == <<"avg_salary">>

KeyHasCount(k) == Contains(Lower(k), <<"count">>) \/ Contains(k, shuliang)
KeyHasAvg(k) == Contains(Lower(k), <<"avg_salary">>) \/ Contains(k, pingjun)

\* the parts of one row of the grouped summary; ValueError when an
\* average-like field holds a string
GroupedRaises(row) ==
  \E i \in 1..Len(row) :
    ~KeyHasCount(row[i].k) /\ KeyHasAvg(row[i].k) /\ row[i].t # "num"

RECURSIVE GroupedParts(_)
GroupedParts(row) ==
  IF row = <<>> THEN <<>>
  ELSE (IF KeyHasCount(row[1].k) THEN row[1].v \o ren
        ELSE IF KeyHasAvg(row[1].k) THEN pingjun \o Fixed2(row[1])
        ELSE row[1].k \o <<": ">> \o row[1].v) \o
       (IF Len(row) = 1 THEN <<>> ELSE <<", ">> \o GroupedParts(Tail(row)))

RECURSIVE GroupedRows(_)
GroupedRows(result) ==
  IF result = <<>> THEN <<>>
  ELSE <<"BULLET", " ">> \o GroupedParts(result[1]) \o <<"NL">> \o
       GroupedRows(Tail(result))

\* the sentence of the max / min branch
ExtremeText(q, row, extreme, record_label) ==
  IF Contains(q, xinzi)
  THEN xinzi \o extreme \o de \o <<"shi_be", " ">> \o Get(row, xingming, weizhi) \o
       <<"c_comma">> \o xinzi \o <<"wei", " ">> \o Get(row, xinzi, weizhi) \o
       <<" ", "yuan", "c_period">>
  ELSE record_label \o <<"zhi_val", "ji_rec", "lu", "c_colon">> \o KeyValues(row)

\* FormatBranch by the keywords alone: a branch whose keyword is in the
\* question answers whatever the rows look like
KeywordBranch(question, result) ==
  LET q == Lower(question)
      has(p) == Contains(q, p)
  IN
  IF result = <<>> THEN "unknown"
  ELSE IF has(duoshao) \/ has(shuliang) \/ has(<<"count">>) THEN "count"
  ELSE IF has(qian) /\ (has(tiao) \/ has(hang)) THEN "top_n"
  ELSE IF has(zuigao) \/ has(zuida) THEN "max"
  ELSE IF has(zuidi) \/ has(zuixiao) THEN "min"
  ELSE IF has(pingjun)
       THEN IF /\ Len(result) = 1 /\ Len(result[1]) # 1
               /\ HasKey(result[1], department) /\ HasKey(result[1], avg_salary)
            THEN "department_average"
            ELSE "average"
  ELSE IF has(ge_each) /\ (has(bumen) \/ has(<<"fen", "zu">>)) THEN "grouped"
  ELSE IF has(de) THEN "possessive"
  ELSE "default"

\* the branch of the decision table that answers; branches are tried in
\* this order and a branch that returns nothing falls through to the next
FormatBranch(question, result) ==
  LET q == Lower(question)
      has(p) == Contains(q, p)
      one_by_one == Len(result) = 1 /\ Len(result[1]) = 1
  IN
  IF result = <<>> THEN "unknown"
  ELSE IF (has(duoshao) \/ has(shuliang) \/ has(<<"count">>)) /\ one_by_one
       THEN "count"
  ELSE IF has(qian) /\ (has(tiao) \/ has(hang)) THEN "top_n"
  ELSE IF has(zuigao) \/ has(zuida) THEN "max"
  ELSE IF has(zuidi) \/ has(zuixiao) THEN "min"
  ELSE IF has(pingjun) /\ one_by_one THEN "average"
  ELSE IF /\ has(pingjun) /\ Len(result) = 1
          /\ HasKey(result[1], department) /\ HasKey(result[1], avg_salary)
       THEN "department_average"
  \* each, with department or grouping ("fen","zu")
  ELSE IF has(ge_each) /\ (has(bumen) \/ has(<<"fen", "zu">>)) THEN "grouped"
  ELSE IF has(de) THEN "possessive"
  ELSE "default"

\* the text the branch returns (ValueError when its .2f meets a string)
FormatAs(branch, question, result) ==
  LET q == Lower(question)
      has(p) == Contains(q, p)
      n == Len(result)
  IN
  CASE branch = "unknown" -> wobuzhidao
    [] branch = "count" ->
         LET count == result[1][1].v IN
         IF has(hang)
         THEN <<"shu", "ju", "zong", "gong_total", "you", " ">> \o count \o
              <<" ", "hang", "c_period">>
         ELSE IF has(ren)
              THEN <<"gong_total", "you", " ">> \o count \o <<" ", "ren", "c_period">>
              ELSE <<"zong", "shu", "liang", "wei", " ">> \o count \o <<"c_period">>
    [] branch = "top_n" ->
         <<"yi_by", "xia", "shi_be", "qian">> \o
         (IF FirstNumber(question) # <<>> THEN FirstNumber(question)
          ELSE <<"ji_few">>) \o
         <<"tiao", "ji_rec", "lu", "c_colon", "NL", "NL">> \o
         NumberedRows(result, 1, n)
    [] branch = "max" -> ExtremeText(q, result[1], zuigao, <<"zui", "da">>)
    [] branch = "min" -> ExtremeText(q, result[1], zuidi, <<"zui", "xiao">>)
    [] branch = "average" ->
         LET avg_value == result[1][1] IN
         IF avg_value.t # "num" THEN ValueError
         ELSE IF has(xinzi) \/ has(gongzi)
              THEN pingjun \o xinzi \o <<"wei", " ">> \o Fixed2(avg_value) \o
                   <<" ", "yuan", "c_period">>
              ELSE pingjun \o <<"zhi_val", "wei", " ">> \o Fixed2(avg_value) \o
                   <<"c_period">>
    [] branch = "department_average" ->
         LET dept == Get(result[1], department, <<>>)
             avg_sal == GetField(result[1], avg_salary)
             amount == pingjun \o gongzi \o <<"wei", " ">> \o Fixed2(avg_sal) \o
                       <<" ", "yuan", "c_period">>
         IN
         IF avg_sal.t # "num" THEN ValueError
         ELSE IF has(zuigao)
              THEN pingjungongzizuigaodebumen \o <<"shi_be", " ">> \o dept \o
                   <<"c_comma">> \o amount
         ELSE IF has(zuidi)
              THEN pingjun \o gongzi \o zuidi \o de \o bumen \o <<"shi_be", " ">> \o
                   dept \o <<"c_comma">> \o amount
         ELSE dept \o <<" ">> \o de \o amount
    [] branch = "grouped" ->
         IF \E i \in 1..n : GroupedRaises(result[i]) THEN ValueError
         ELSE <<"tong", "ji_count", "jie", "guo", "ru", "xia", "c_colon", "NL", "NL">> \o
              GroupedRows(result)
    [] branch = "possessive" ->
         IF n = 1
         THEN <<"cha", "zhao", "dao_reach", "1", "tiao", "ji_rec", "lu", "c_colon", "NL">> \o
              KeyValues(result[1])
         ELSE <<"cha", "zhao", "dao_reach", ToString(n), "tiao", "ji_rec", "lu",
                "c_colon", "NL", "NL">> \o
              NumberedRows(result, 1, IF n > 10 THEN 10 ELSE n) \o
              (IF n > 10
               THEN <<"...", " ", "hai", "you", ToString(n - 10), "tiao", "ji_rec", "lu">>
               ELSE <<>>)
    [] OTHER ->
         IF n = 1 /\ Len(result[1]) = 1
         THEN <<"cha", "xun", "jie", "guo", "c_colon">> \o result[1][1].v
         ELSE IF n <= 5
              THEN <<"cha", "xun", "dao_reach", ToString(n), "tiao", "ji_rec", "lu",
                     "c_colon", "NL", "NL">> \o NumberedRows(result, 1, n)
              ELSE <<"cha", "xun", "dao_reach", ToString(n), "tiao", "ji_rec", "lu",
                     "c_comma", "xian", "shi_show", "qian", "5", "tiao", "c_colon",
                     "NL", "NL">> \o NumberedRows(result, 1, 5) \o
                   <<"...", " ", "hai", "you", ToString(n - 5), "tiao", "ji_rec", "lu">>

format_answer(question, result) ==
  FormatAs(FormatBranch(question, result), question, result)

\* ------------------------------------------------------ answer assembler

\* ' '.join(sql_query.split())
CleanSql(sql_query) == JoinSpace(Words(sql_query))

\* the display of the executed query that opens every full response
Trace(sql_query) ==
  trace_marker \o <<" ", "FENCE", "sql", "NL">> \o CleanSql(sql_query) \o
  <<"NL", "FENCE", "NL", "NL">>

\* analysis is the outcome of llm.invoke: [ok |-> FALSE] when it raised,
\* else [ok |-> TRUE, v |-> response.content]
analyze_with_llm(result, llm, analysis) ==
  IF result = <<>> THEN wobuzhidao
  ELSE IF ~llm THEN wobuzhidao
  ELSE IF analysis.ok THEN analysis.v
  ELSE wobuzhidao

\* the narrative create_full_response puts after the trace; ValueError when
\* format_answer raises
Narrative(question, result, llm, llm_analysis) ==
  IF llm /\ llm_analysis # <<>> /\ llm_analysis # wobuzhidao
  THEN llm_analysis
  ELSE format_answer(question, result)

\* Assemble without the trace: the narrative alone
NarrativeAlone(sql_query, narrative) == narrative

\* the trace, then the narrative
Assemble(sql_query, narrative) ==
  IF narrative = ValueError THEN ValueError
  ELSE Trace(sql_query) \o narrative

create_full_response(question, sql_query, result, llm, analysis) ==
  Assemble(sql_query,
           Narrative(question, result, llm,
                     analyze_with_llm(result, llm, analysis)))

\* --------------------------------------------------------- execute_sql
\* Query execution is external.  It raises, or returns one of the row
\* lists a query of that text can give.

name_col == <<"name">>
salary_col == <<"salary">>

person ==
  <<Field(name_col, "str", <<"Alice">>), Field(department, "str", <<"Sales">>),
    Field(salary_col, "num", <<"7500.5">>)>>

People(n) == [i \in 1..n |-> person]

row_dept ==
  <<Field(department, "str", <<"Sales">>), Field(avg_salary, "num", <<"7500.5">>)>>
row_avg == <<Field(avg_salary, "num", <<"7500.5">>)>>
row_avg_null == <<Field(avg_salary, "str", <<>>)>>
row_total == <<Field(<<"total_rows">>, "num", <<"3">>)>>
row_dept_max ==
  <<Field(department, "str", <<"Sales">>), Field(<<"max_salary">>, "num", <<"7500.5">>)>>
row_dept_count ==
  <<Field(department, "str", <<"Sales">>), Field(<<"count">>, "num", <<"3">>)>>
row_dept_count_avg ==
  <<Field(department, "str", <<"Sales">>), Field(<<"count">>, "num", <<"3">>),
    Field(avg_salary, "num", <<"7500.5">>)>>
row_name == <<Field(name_col, "str", <<"Alice">>)>>

\* the row lists a successful execution of sql_query can return
Results(sql_query) ==
  CASE sql_query \in {dept_avg_desc1, dept_avg_asc1} -> {<<>>, <<row_dept>>}
    [] sql_query = dept_avg_desc -> {<<>>, <<row_dept>>, <<row_dept, row_dept>>}
    [] sql_query = plain_avg -> {<<row_avg>>, <<row_avg_null>>}
    [] sql_query = dept_max1 -> {<<>>, <<row_dept_max>>}
    [] sql_query = top_salary1 -> {<<>>, People(1)}
    [] sql_query = dept_count -> {<<>>, <<row_dept_count>>}
    [] sql_query = total_rows -> {<<row_total>>}
    [] sql_query = dept_count_avg ->
         {<<>>, <<row_dept_count_avg>>, <<row_dept_count_avg, row_dept_count_avg>>}
    [] sql_query \in {select_all, preview20} ->
         {<<>>, People(1), People(2), People(6), People(11)}
    [] sql_query = preview10 -> {<<>>, People(1), People(6)}
    [] sql_query = first_n(<<"5">>) -> {<<>>, People(2)}
    [] OTHER -> {<<>>, <<row_avg>>, <<row_name>>, People(2)}

Raised == [ok |-> FALSE]
Returned(v) == [ok |-> TRUE, v |-> v]

ExecOutcomes(sql_query) == {Raised} \cup {Returned(r) : r \in Results(sql_query)}

\* ------------------------------------------------------------ the stores

VARIABLES
  sessions,        \* the dict sessions: session number |-> its upload
  conversations,   \* the dict conversations: conversation id |-> turns
  llm_key,         \* whether OPENAI_API_KEY is set, so that create_llm succeeds
  now,             \* the millisecond clock create_new_conversation reads
  uploads,         \* the uploads so far (each makes a fresh temp_dir)
  response,        \* what the last request returned
  request,         \* what the last question went through inside query_data
  tasks            \* the query_data handlers started on the event loop

vars == <<sessions, conversations, llm_key, now, uploads, response, request, tasks>>

\* the cap on the turns of one conversation
MaxTurns == 10

\* bounds of the model
MaxUploads == 3
MaxStored == 1
MaxClock == 0
MaxMarked == 1

\* conversation ids: conv_session_<n>_<suffix> is <<"conv", n, suffix>>
DefaultConv(session_id) == <<"conv", session_id, "default">>
NewConv(session_id, ms) == <<"conv", session_id, ToString(ms)>>
NoConv == <<"none", 0, "">>
ClientConv == <<"client", 0, "x">>

\* conv_id.startswith(f"conv_{session_id}_")
BelongsTo(conv_id, session_id) == conv_id[1] = "conv" /\ conv_id[2] = session_id

\* lst[-n:]
LastN(lst, n) == IF Len(lst) > n THEN SubSeq(lst, Len(lst) - n + 1, Len(lst)) ELSE lst

Put(dict, key, value) == [k \in DOMAIN dict \cup {key} |-> IF k = key THEN value ELSE dict[k]]
Del(dict, key) == [k \in DOMAIN dict \ {key} |-> dict[k]]

Resp(op, status, success, answer, conversation_id, history) ==
  [op |-> op, status |-> status, success |-> success, answer |-> answer,
   conversation_id |-> conversation_id, history |-> history]

NotFound(op) == Resp(op, 404, FALSE, <<>>, NoConv, <<>>)
Ok(op, conversation_id, history) == Resp(op, 200, TRUE, <<>>, conversation_id, history)

\* what query_data went through: the turns the conversation held when the
\* question came, the resolved question, the outcome of the NL-to-query chain
\* and the number of its calls, the tier and text of the query, the outcome of
\* its execution and of the summarisation, what format_answer returned,
\* whether a turn was appended
Req(known, conversation_id, question, held, processed, generated, invoked, tier, sql, executed, summarised, formatted, appended) ==
  [known |-> known, conversation_id |-> conversation_id, question |-> question,
   held |-> held, processed |-> processed, generated |-> generated,
   invoked |-> invoked, tier |-> tier, sql |-> sql, executed |-> executed,
   summarised |-> summarised, formatted |-> formatted, appended |-> appended]

NoReq ==
  Req(FALSE, NoConv, <<>>, 0, <<>>, Raised, 0, "none", <<>>, Raised, Raised, <<>>,
      FALSE)

\* the text of the answer of a failed response: the prefix, then str(e)
chaxunchucuo == <<"cha", "xun", "chu", "cuo", "c_colon">>
detail_no_session == <<"404", ": ", "hui", "hua", "bu_not", "cun", "zai">>
detail_sql_failed == <<"500", ": ", "SQL", "zhi_do", "xing_go", "shi_fail", "bai", ": ">>
detail_format == <<"Unknown format code f for object of type str">>

QueryFailed(question, detail) ==
  [op |-> "query", status |-> 200, success |-> FALSE,
   answer |-> chaxunchucuo \o detail, conversation_id |-> NoConv, history |-> <<>>]

\* what analyze_with_llm puts into the prompt from the history: the last
\* three turns, each with the answer part of its stored answer, and whether
\* the hint that the question refers back is added
ContextTurns(last3) ==
  [i \in 1..Len(last3) |->
     <<last3[i][1], extract_answer_from_full_response(last3[i][2])>>]

context_info(question, conversation_history) ==
  IF conversation_history = <<>> THEN [turns |-> <<>>, hint |-> FALSE]
  ELSE [turns |-> ContextTurns(LastN(conversation_history, 3)),
        hint |-> \/ has_implicit_context_reference(question, conversation_history)
                 \/ has_pronoun_reference(question)]

Init ==
  /\ sessions = <<>>
  /\ conversations = <<>>
  /\ llm_key = FALSE
  /\ now = 0
  /\ uploads = 0
  /\ response = Ok("start", NoConv, <<>>)
  /\ request = NoReq
  /\ tasks = <<>>

\* POST /upload-file, for a file that parses
upload_file ==
  /\ uploads < MaxUploads
  /\ LET session_id == Cardinality(DOMAIN sessions) IN
     /\ sessions' = Put(sessions, session_id, [upload |-> uploads + 1])
     /\ response' = Resp("upload", 200, TRUE, <<>>, <<"session", session_id, "">>, <<>>)
  /\ uploads' = uploads + 1
  /\ request' = NoReq
  /\ UNCHANGED tasks
  /\ UNCHANGED <<conversations, llm_key, now>>

\* DELETE /sessions/{session_id}
delete_session(session_id) ==
  /\ IF session_id \in DOMAIN sessions
     THEN /\ sessions' = Del(sessions, session_id)
          /\ response' = Ok("delete", NoConv, <<>>)
     ELSE /\ sessions' = sessions
          /\ response' = NotFound("delete")
  /\ request' = NoReq
  /\ UNCHANGED tasks
  /\ UNCHANGED <<conversations, llm_key, now, uploads>>

\* StoreTurn with the cut at the wrong end: lst[:10]
KeepFirst(conversation_history, question, full_answer) ==
  SubSeq(Append(conversation_history, <<question, full_answer>>), 1,
         IF Len(conversation_history) + 1 > MaxTurns THEN MaxTurns
         ELSE Len(conversation_history) + 1)

\* conversations[conversation_id] after the turn is saved: appended, then cut
\* to the last MaxTurns
StoreTurn(conversation_history, question, full_answer) ==
  LastN(Append(conversation_history, <<question, full_answer>>), MaxTurns)

\* the record of a question that got as far as execution
Went(conversation_id, created, question, processed_question, generated, plan, executed, summarised, formatted, appended) ==
  Req(TRUE, conversation_id, question, Len(created[conversation_id]),
      processed_question, generated, IF llm_key THEN 1 ELSE 0, plan.tier, plan.sql,
      executed, summarised, formatted, appended)

\* Answered with the turn saved in the except branch too
AnsweredSaving(conversation_id, created, question, processed_question, generated, plan, executed, analysis, full_answer, basic_answer) ==
  IF full_answer = ValueError \/ basic_answer = ValueError
  THEN /\ response' = QueryFailed(question, detail_format)
       /\ conversations' =
            [created EXCEPT ![conversation_id] =
               LastN(Append(@, <<question, chaxunchucuo \o detail_format>>), MaxTurns)]
       /\ request' = Went(conversation_id, created, question, processed_question,
                          generated, plan, executed, analysis, basic_answer, TRUE)
  ELSE /\ response' = Resp("query", 200, TRUE, full_answer, conversation_id, <<>>)
       /\ conversations' =
            [created EXCEPT ![conversation_id] =
               LastN(Append(@, <<question, full_answer>>), MaxTurns)]
       /\ request' = Went(conversation_id, created, question, processed_question,
                          generated, plan, executed, analysis, basic_answer, TRUE)

\* the steps of query_data after the query is executed: both answers are
\* made, then the turn is saved and the success response returned; an
\* exception of either answer takes the except branch
Answered(conversation_id, created, question, processed_question, generated, plan, executed, analysis, full_answer, basic_answer) ==
  IF full_answer = ValueError \/ basic_answer = ValueError
  THEN /\ response' = QueryFailed(question, detail_format)
       /\ conversations' = created
       /\ request' = Went(conversation_id, created, question, processed_question,
                          generated, plan, executed, analysis, basic_answer, FALSE)
  ELSE /\ response' = Resp("query", 200, TRUE, full_answer, conversation_id, <<>>)
       /\ conversations' =
            [created EXCEPT ![conversation_id] = StoreTurn(@, question, full_answer)]
       /\ request' = Went(conversation_id, created, question, processed_question,
                          generated, plan, executed, analysis, basic_answer, TRUE)

\* the steps of query_data from execute_sql on, for the planned query
Planned(conversation_id, created, question, processed_question, generated, plan, analysis) ==
  \E executed \in ExecOutcomes(plan.sql) :
    /\ (executed.ok /\ executed.v # <<>> /\ llm_key) \/ analysis = Raised
    /\ IF ~executed.ok
       THEN /\ response' = QueryFailed(question, detail_sql_failed)
            /\ conversations' = created
            /\ request' = Went(conversation_id, created, question,
                               processed_question, generated, plan, executed,
                               Raised, <<>>, FALSE)
       ELSE Answered(conversation_id, created, question, processed_question,
                     generated, plan, executed, analysis,
                     create_full_response(question, plan.sql, executed.v, llm_key,
                                          analysis),
                     format_answer(question, executed.v))

\* the steps of query_data from the planning of the query on, for the
\* resolved question
Resolved(conversation_id, created, question, processed_question, generated, analysis) ==
  Planned(conversation_id, created, question, processed_question, generated,
          PlanQuery(question, processed_question, created[conversation_id],
                    llm_key, generated),
          analysis)

\* the steps of query_data for a known dataset: created is the store after
\* the conversation is looked up or made
Conversed(conversation_id, created, question, generated, analysis) ==
  Resolved(conversation_id, created, question,
           process_pronoun_references(question, created[conversation_id]),
           generated, analysis)

\* conversations after "if conversation_id not in conversations: ... = []"
GetOrCreate(conversation_id) ==
  IF conversation_id \in DOMAIN conversations THEN conversations
  ELSE Put(conversations, conversation_id, <<>>)

\* request.conversation_id or the default id of the dataset
ConversationOf(session_id, conversation_id_req) ==
  IF conversation_id_req = NoConv THEN DefaultConv(session_id)
  ELSE conversation_id_req

\* POST /query.  generated and analysis are the outcomes of the two calls of
\* the language model; neither call is made without an llm instance.
query_data(session_id, conversation_id_req, question, generated, analysis) ==
  /\ llm_key \/ (generated = Raised /\ analysis = Raised)
  /\ UNCHANGED <<sessions, llm_key, now, uploads, tasks>>
  /\ IF session_id \notin DOMAIN sessions
     THEN /\ response' = QueryFailed(question, detail_no_session)
          /\ request' = NoReq
          /\ UNCHANGED conversations
     ELSE Conversed(ConversationOf(session_id, conversation_id_req),
                    GetOrCreate(ConversationOf(session_id, conversation_id_req)),
                    question, generated, analysis)

\* GET /sessions/{session_id}/conversations
list_conversations(session_id) ==
  /\ response' =
       IF session_id \notin DOMAIN sessions THEN NotFound("list")
       ELSE Resp("list", 200, TRUE, <<>>, NoConv,
                 {c \in DOMAIN conversations : BelongsTo(c, session_id)})
  /\ request' = NoReq
  /\ UNCHANGED tasks
  /\ UNCHANGED <<sessions, conversations, llm_key, now, uploads>>

\* POST /sessions/{session_id}/conversations; ms is the clock it reads, which
\* never runs backwards
create_new_conversation(session_id, ms) ==
  /\ ms >= now
  /\ now' = ms
  /\ IF session_id \notin DOMAIN sessions
     THEN /\ response' = NotFound("create")
          /\ UNCHANGED conversations
     ELSE /\ conversations' = Put(conversations, NewConv(session_id, ms), <<>>)
          /\ response' = Ok("create", NewConv(session_id, ms), <<>>)
  /\ request' = NoReq
  /\ UNCHANGED tasks
  /\ UNCHANGED <<sessions, llm_key, uploads>>

\* GET /sessions/{session_id}/conversations/{conversation_id}
get_conversation_history(session_id, conversation_id) ==
  /\ response' =
       IF session_id \notin DOMAIN sessions THEN NotFound("history")
       ELSE IF conversation_id \notin DOMAIN conversations
            THEN Ok("history", conversation_id, <<>>)
            ELSE Ok("history", conversation_id, conversations[conversation_id])
  /\ request' = NoReq
  /\ UNCHANGED tasks
  /\ UNCHANGED <<sessions, conversations, llm_key, now, uploads>>

\* DELETE /sessions/{session_id}/conversations/{conversation_id}
clear_conversation_history(session_id, conversation_id) ==
  /\ IF session_id \notin DOMAIN sessions
     THEN /\ response' = NotFound("clear")
          /\ UNCHANGED conversations
     ELSE /\ conversations' =
               IF conversation_id \in DOMAIN conversations
               THEN [conversations EXCEPT ![conversation_id] = <<>>]
               ELSE conversations
          /\ response' = Ok("clear", NoConv, <<>>)
  /\ request' = NoReq
  /\ UNCHANGED tasks
  /\ UNCHANGED <<sessions, llm_key, now, uploads>>

\* GET /sessions/{session_id}/info
get_session_info(session_id) ==
  /\ response' =
       IF session_id \notin DOMAIN sessions THEN NotFound("info")
       ELSE Ok("info", <<"session", session_id, "">>, <<>>)
  /\ request' = NoReq
  /\ UNCHANGED tasks
  /\ UNCHANGED <<sessions, conversations, llm_key, now, uploads>>

\* POST /config/model with a configuration create_llm accepts
configure_model ==
  /\ ~llm_key
  /\ llm_key' = TRUE
  /\ response' = Ok("config", NoConv, <<>>)
  /\ request' = NoReq
  /\ UNCHANGED tasks
  /\ UNCHANGED <<sessions, conversations, now, uploads>>

\* ----------------------------------------------------- the inputs drawn

\* which department has the highest average wage
q_highest_dept ==
  <<"na_which", "ge">> \o bumen \o de \o pingjun \o gongzi \o zuigao
\* which department has the lowest average salary
q_lowest_dept ==
  <<"na_which", "ge">> \o bumen \o de \o pingjun \o xinzi \o zuidi
\* the average wage of each department
q_dept_avg == ge_each \o bumen \o de \o pingjun \o gongzi
\* what is the average wage
q_average == pingjun \o gongzi \o <<"shi_be">> \o duoshao
\* average salary
q_avg_plain == pingjun \o xinzi
\* what is the earliest fossil
q_fossil == zuizaode \o huashi \o <<"shi_be", "shen", "me">>
\* whose wage is the highest
q_highest_salary == <<"shei">> \o de \o gongzi \o zuigao
\* which department has the highest wage
q_highest_salary_dept == <<"na_which", "ge">> \o bumen \o gongzi \o zuigao
\* how many rows does the data have
q_rows == <<"shu", "ju", "you">> \o duoshao \o hang
\* COUNT department
q_count_dept == <<"COUNT", " ">> \o bumen
\* show the first 5 records
q_top5 == <<"xian", "shi_show">> \o qian \o <<"5">> \o tiao
\* the first few rows
q_top == qian \o <<"ji_few">> \o hang
\* how each department is doing
q_each_dept == ge_each \o bumen \o <<"qing", "kuang">>
\* show all the data
q_all == <<"xian", "shi_show">> \o suoyou \o <<"shu", "ju">>
\* how many people do they have
q_their_count == tamen \o <<"you">> \o duoshao \o ren
\* what is their average wage
q_their_average == tamen \o de \o pingjun \o gongzi \o <<"shi_be">> \o duoshao
\* hello
q_hello == <<"ni", "hao">>
\* in which year was it found
q_it_when == ta_it \o <<"shi_be">> \o nayinian \o <<"fa", "xian_find">> \o de
\* how many people does this one have
q_this == zhege \o <<"you">> \o duoshao \o ren
\* where was it found (no pronoun)
q_where == zainali \o <<"fa", "xian_find">> \o de
\* and that one
q_that == <<"na_that", "ge", "ne">>

\* texts the NL-to-query chain returns
text_sql == <<"SELECT", " ", "name FROM data_table LIMIT 1", ";">>
text_fenced ==
  <<"Here is the query", ":", "NL", "FENCE", "sql", "NL", "select", " ",
    "name FROM data_table", "NL", "--", " ", "one row", "NL", "LIMIT 1", ";", "NL",
    "FENCE", "NL", "It lists one name", ".">>
text_with == <<"WITH", " ", "t AS (SELECT name FROM data_table) SELECT * FROM t">>
\* a generated query whose column alias is the words "highest average wage"
sql_alias ==
  <<"SELECT", " ", "department, AVG(salary) AS", " ">> \o pingjungongzizuigao \o
  <<" ", "FROM data_table GROUP BY department ORDER BY 2 LIMIT 1">>
\* a complete statement on the first line, then a remark
text_trailing ==
  <<"SELECT", " ", "name FROM data_table LIMIT 1", ";", "NL", "It lists one name",
    ".">>
text_no_sql == <<"I cannot answer that", ".">>
text_without == <<"Without", " ", "a salary column this cannot be answered", ".">>

\* texts the summarisation returns
analysis_highest == pingjungongzizuigaodebumen \o <<"shi_be", " ", "Sales", "c_period">>
\* a summary that quotes the row in a code block
analysis_fenced ==
  pingjungongzizuigaodebumen \o
  <<"shi_be", " ", "Sales", "c_colon", "NL", "FENCE", "NL", "Sales 7500.5", "NL",
    "FENCE", "NL">> \o pingjun \o gongzi \o <<"7500.5", "c_period">>
\* the department with the lowest average wage is IT.
analysis_lowest ==
  pingjun \o gongzi \o zuidi \o de \o bumen \o <<"shi_be", " ", "IT", "c_period">>
analysis_fossil ==
  zuizaode \o huashi \o <<"shi_be", " ", "Trilobite", " ", "fossil", "c_comma",
                         "shu_belong", "yu", "san", "ye", "chong", "shu_genus",
                         "c_period">>

\* the number of turns stored in all conversations
RECURSIVE TotalTurns(_)
TotalTurns(dict) ==
  IF DOMAIN dict = {} THEN 0
  ELSE LET c == CHOOSE k \in DOMAIN dict : TRUE
       IN Len(dict[c]) + TotalTurns(Del(dict, c))

\* ------------------------------------------- Spec: the request surface
\* Every operation, on up to MaxUploads datasets, with no API key set.

SessionIds == 0..MaxUploads
\* the conversation ids a client sends: the ids in the store and one that
\* is not
ConvIds == DOMAIN conversations \cup {ClientConv}
Clock == 0..MaxClock

Next ==
  \/ upload_file
  \/ \E n \in SessionIds : delete_session(n)
  \/ /\ TotalTurns(conversations) < MaxStored
     /\ \E n \in SessionIds, c \in {NoConv} \cup ConvIds :
          query_data(n, c, q_rows, Raised, Raised)
  \/ \E n \in SessionIds : list_conversations(n)
  \/ \E n \in SessionIds, ms \in Clock : create_new_conversation(n, ms)
  \/ \E n \in SessionIds, c \in ConvIds : get_conversation_history(n, c)
  \/ \E n \in SessionIds, c \in ConvIds : clear_conversation_history(n, c)
  \/ \E n \in SessionIds : get_session_info(n)

Spec == Init /\ [][Next]_vars

\* --------------------------------- SpecAsk: one question, every input
\* One dataset is uploaded; the default conversation is empty or holds one
\* earlier turn; one question is asked, with every outcome of the language
\* model and of the execution.

Uploaded == (0 :> [upload |-> 1])

\* the turn query_data stores for a question, its query, the rows and the
\* outcome of the summarisation
Turn(question, sql_query, result, llm, analysis) ==
  <<question, create_full_response(question, sql_query, result, llm, analysis)>>

turn_highest == Turn(q_highest_dept, dept_avg_desc1, <<row_dept>>, FALSE, Raised)
turn_highest_llm ==
  Turn(q_highest_dept, dept_avg_desc1, <<row_dept>>, TRUE, Returned(analysis_highest))
turn_fossil_llm ==
  Turn(q_fossil, select_all, People(2), TRUE, Returned(analysis_fossil))
turn_alias_llm ==
  Turn(q_lowest_dept, sql_alias, <<row_dept>>, TRUE, Returned(analysis_lowest))
turn_fenced_llm ==
  Turn(q_highest_dept, dept_avg_desc1, <<row_dept>>, TRUE, Returned(analysis_fenced))

InitAsk ==
  /\ sessions = Uploaded
  /\ uploads = 1
  /\ now = 0
  /\ \E h \in {<<>>, <<turn_highest>>, <<turn_highest_llm>>, <<turn_fossil_llm>>,
              <<turn_fenced_llm>>, <<turn_alias_llm>>} :
       /\ conversations = IF h = <<>> THEN <<>> ELSE (DefaultConv(0) :> h)
       /\ llm_key \in (IF h \in {<<>>, <<turn_highest>>} THEN BOOLEAN ELSE {TRUE})
  /\ response = Ok("start", NoConv, <<>>)
  /\ request = NoReq
  /\ tasks = <<>>

AskQuestions ==
  {q_highest_dept, q_lowest_dept, q_dept_avg, q_average, q_avg_plain, q_fossil,
   q_highest_salary, q_highest_salary_dept, q_rows, q_count_dept, q_top5, q_top,
   q_each_dept, q_all, q_their_count, q_their_average, q_hello, q_it_when,
   q_this, q_where, q_that}
AskGenerated ==
  {Raised, Returned(text_sql), Returned(text_fenced), Returned(text_with),
   Returned(text_no_sql), Returned(text_without), Returned(text_trailing)}
AskAnalyses == {Raised, Returned(wobuzhidao), Returned(analysis_highest)}

NextAsk ==
  \/ /\ response.op = "start"
     /\ configure_model
  \/ /\ response.op \in {"start", "config"}
     /\ \E q \in AskQuestions, g \in AskGenerated, a \in AskAnalyses :
          query_data(0, NoConv, q, g, a)

SpecAsk == InitAsk /\ [][NextAsk]_vars


\* --------------------- SpecConc: questions in flight on the event loop
\* query_data is a coroutine that never awaits: the generation of the
\* query, its execution and the summarisation are blocking calls.  Once the
\* event loop has started a handler it starts no other until that one has
\* returned.  The steps below are the handler's program points around its
\* external calls, on one dataset and its default conversation.

MaxRequests == 3

\* a handler: its program point and its locals
Task(pc, question, conversation_history, processed_question, sql_query, result) ==
  [pc |-> pc, question |-> question, conversation_history |-> conversation_history,
   processed_question |-> processed_question, sql_query |-> sql_query,
   result |-> result]

\* the event loop runs no handler
LoopFree == \A r \in DOMAIN tasks : tasks[r].pc \in {"queued", "done"}

\* the handler starts: the dataset and the turn list are looked up, the
\* question is resolved
Received(r) ==
  /\ tasks[r].pc = "queued"
  /\ LoopFree
  /\ IF 0 \notin DOMAIN sessions
     THEN /\ response' = QueryFailed(tasks[r].question, detail_no_session)
          /\ tasks' = [tasks EXCEPT ![r].pc = "done"]
          /\ UNCHANGED conversations
     ELSE /\ conversations' = GetOrCreate(DefaultConv(0))
          /\ tasks' =
               [tasks EXCEPT ![r] =
                  Task("generate", @.question, conversations'[DefaultConv(0)],
                       process_pronoun_references(@.question,
                                                  conversations'[DefaultConv(0)]),
                       <<>>, <<>>)]
          /\ UNCHANGED response
  /\ UNCHANGED <<sessions, llm_key, now, uploads, request>>

\* the NL-to-query chain has returned or raised (it is not called without
\* an llm instance); the query is the sanitized text or the heuristic one
Generated(r) ==
  /\ tasks[r].pc = "generate"
  /\ \E generated \in {Raised, Returned(text_sql)} :
       /\ llm_key \/ generated = Raised
       /\ tasks' =
            [tasks EXCEPT ![r] =
               Task("execute", @.question, @.conversation_history,
                    @.processed_question,
                    PlanQuery(@.question, @.processed_question,
                              @.conversation_history, llm_key, generated).sql,
                    <<>>)]
  /\ UNCHANGED <<sessions, conversations, llm_key, now, uploads, response, request>>

\* execute_sql has returned rows or raised
Executed(r) ==
  /\ tasks[r].pc = "execute"
  /\ \E executed \in ExecOutcomes(tasks[r].sql_query) :
       IF executed.ok
       THEN /\ tasks' = [tasks EXCEPT ![r].pc = "answer", ![r].result = executed.v]
            /\ UNCHANGED response
       ELSE /\ tasks' = [tasks EXCEPT ![r].pc = "done"]
            /\ response' = QueryFailed(tasks[r].question, detail_sql_failed)
  /\ UNCHANGED <<sessions, conversations, llm_key, now, uploads, request>>

\* both answers are made (the summarisation has returned or raised), the
\* turn is appended, the list cut to MaxTurns and the response returned
Finished(r) ==
  /\ tasks[r].pc = "answer"
  /\ \E analysis \in {Raised, Returned(analysis_highest)} :
       /\ (tasks[r].result # <<>> /\ llm_key) \/ analysis = Raised
       /\ IF \/ create_full_response(tasks[r].question, tasks[r].sql_query,
                                     tasks[r].result, llm_key, analysis) = ValueError
             \/ format_answer(tasks[r].question, tasks[r].result) = ValueError
          THEN /\ response' = QueryFailed(tasks[r].question, detail_format)
               /\ UNCHANGED conversations
          ELSE /\ conversations' =
                    [conversations EXCEPT ![DefaultConv(0)] =
                       StoreTurn(@, tasks[r].question,
                                 create_full_response(tasks[r].question,
                                                      tasks[r].sql_query,
                                                      tasks[r].result, llm_key,
                                                      analysis))]
               /\ response' =
                    Resp("query", 200, TRUE,
                         create_full_response(tasks[r].question, tasks[r].sql_query,
                                              tasks[r].result, llm_key, analysis),
                         DefaultConv(0), <<>>)
  /\ tasks' = [tasks EXCEPT ![r].pc = "done"]
  /\ UNCHANGED <<sessions, llm_key, now, uploads, request>>

\* the questions of the requests
ConcQuestions == <<q_rows, q_avg_plain, q_hello>>

InitConc ==
  /\ sessions = Uploaded
  /\ uploads = 1
  /\ now = 0
  /\ conversations = <<>>
  /\ llm_key \in BOOLEAN
  /\ response = Ok("start", NoConv, <<>>)
  /\ request = NoReq
  /\ tasks = [r \in 1..MaxRequests |->
               Task("queued", ConcQuestions[r], <<>>, <<>>, <<>>, <<>>)]

\* clear_conversation_history is a handler too: the loop runs it when it
\* runs no other
NextConc ==
  \/ \E r \in DOMAIN tasks : Received(r)
  \/ \E r \in DOMAIN tasks : Generated(r)
  \/ \E r \in DOMAIN tasks : Executed(r)
  \/ \E r \in DOMAIN tasks : Finished(r)
  \/ /\ LoopFree
     /\ response.op # "clear"
     /\ clear_conversation_history(0, DefaultConv(0))

SpecConc == InitConc /\ [][NextConc]_vars


\* ------------------------ SpecGeo: the temporal-range analyzer
\* analyze_geological_time(question, df) is imported from main by
\* test_geological_analysis.py and is not defined there; it is modelled from
\* section 4.3 of the specification.  Ages are in tenths of a million years
\* (485.4 Ma is 4854).  The dataset of the session has the genus, first
\* appearance and last appearance columns the analyzer needs.

MaxRows == 2

OrdovicianStart == 4854
OrdovicianEnd == 4438
LateOrdovicianStart == 4584

GenusRow(genus, first, last) == [genus |-> genus, first |-> first, last |-> last]

Duration(row) == row.first - row.last

\* the index of the first row of the longest duration among rows i..Len(df),
\* best being the index of the best row before i
RECURSIVE Longest(_, _, _)
Longest(df, i, best) ==
  IF i > Len(df) THEN best
  ELSE Longest(df, i + 1,
               IF Duration(df[i]) > Duration(df[best]) THEN i ELSE best)

\* the membership rule with the bounds the other way round: the ranges that
\* overlap the Ordovician
OverlapsOrdovician(row) == row.first >= OrdovicianEnd /\ row.last <= OrdovicianStart

InOrdovician(row) == row.first <= OrdovicianStart /\ row.last >= OrdovicianEnd

ExtinctBeforeLate(row) ==
  /\ row.first <= OrdovicianStart
  /\ row.last > LateOrdovicianStart
  /\ row.first > row.last

\* the genus names of the rows the filter of the question selects, in order
RECURSIVE Matching(_, _)
Matching(df, question) ==
  IF df = <<>> THEN <<>>
  ELSE (IF \/ question = "membership" /\ InOrdovician(df[1])
           \/ question = "extinct_before" /\ ExtinctBeforeLate(df[1])
        THEN <<df[1].genus>> ELSE <<>>) \o Matching(Tail(df), question)

\* the narrative: the genus of the longest duration, the list of the genera
\* selected or the "no matches" sentinel; nothing for any other question
GeoList(names) ==
  IF names = <<>> THEN [kind |-> "no_matches", names |-> <<>>]
  ELSE [kind |-> "list", names |-> names]

analyze_geological_time(question, df) ==
  CASE question = "longest" ->
         [kind |-> "longest", names |-> <<df[Longest(df, 1, 1)].genus>>]
    [] question \in {"membership", "extinct_before"} ->
         GeoList(Matching(df, question))
    [] OTHER -> [kind |-> "nothing", names |-> <<>>]

\* the analyzer is asked about the dataset of the session
AnalyzeGeological(session_id, question) ==
  /\ session_id \in DOMAIN sessions
  /\ response' =
       Resp("analyze", 200, TRUE,
            analyze_geological_time(question, sessions[session_id].df), NoConv, <<>>)
  /\ request' = [NoReq EXCEPT !.question = question]
  /\ UNCHANGED <<sessions, conversations, llm_key, now, uploads, tasks>>

Ages == {4900, 4854, 4800, 4600, 4584, 4500, 4438}
GenusNames == <<"A", "B", "C">>
GeoRows(n) ==
  {[i \in 1..n |-> GenusRow(GenusNames[i], f[i][1], f[i][2])] :
     f \in [1..n -> Ages \X Ages]}
GeoQuestions == {"longest", "membership", "extinct_before", "other"}

InitGeo ==
  /\ \E n \in 1..MaxRows : \E df \in GeoRows(n) :
       sessions = (0 :> [upload |-> 1, df |-> df])
  /\ uploads = 1
  /\ now = 0
  /\ conversations = <<>>
  /\ llm_key = FALSE
  /\ response = Ok("start", NoConv, <<>>)
  /\ request = NoReq
  /\ tasks = <<>>

NextGeo == \E question \in GeoQuestions : AnalyzeGeological(0, question)

SpecGeo == InitGeo /\ [][NextGeo]_vars

\* ------------------------------ SpecCap: one conversation, many turns
\* One dataset, no API key; questions go to the default conversation without
\* limit, conversations are created and cleared.

InitCap ==
  /\ sessions = Uploaded
  /\ uploads = 1
  /\ now = 0
  /\ conversations = <<>>
  /\ llm_key = FALSE
  /\ response = Ok("start", NoConv, <<>>)
  /\ request = NoReq
  /\ tasks = <<>>

\* the turns of lst that ask question
Asked(lst, question) == Cardinality({i \in 1..Len(lst) : lst[i][1] = question})

\* the turns of the marked question (q_avg_plain) in the default conversation
Marked ==
  IF DefaultConv(0) \in DOMAIN conversations
  THEN Asked(conversations[DefaultConv(0)], q_avg_plain)
  ELSE 0

NextCap ==
  \/ \E q \in {q_rows, q_avg_plain} :
       /\ q = q_avg_plain => Marked < MaxMarked
       /\ query_data(0, NoConv, q, Raised, Raised)
  \/ create_new_conversation(0, 0)
  \/ \E c \in ConvIds : clear_conversation_history(0, c)

SpecCap == InitCap /\ [][NextCap]_vars

\* ================================================================ claims

\* the turns of conversation c, none when it is not in the store
TurnsOf(dict, c) == IF c \in DOMAIN dict THEN dict[c] ELSE <<>>

\* lst after one more turn under a cap of 10, oldest turn dropped first
Pushed(lst, turn) ==
  IF Len(lst) < 10 THEN lst \o <<turn>> ELSE Tail(lst) \o <<turn>>

\* the last request was a question on a known dataset
Questioned == response.op = "query" /\ request.known

\* C1: whatever questions, creations and clearings came before, no
\* conversation holds more than 10 turns, and a question answered on a
\* conversation of 10 turns drops the oldest turn and keeps the other nine,
\* in order, before the new one.
C1_CapEvictsOldest ==
  [][\A c \in DOMAIN conversations' :
       /\ Len(conversations'[c]) <= 10
       /\ (response'.op = "query" /\ response'.success
           /\ c = response'.conversation_id)
          => conversations'[c] =
               Pushed(TurnsOf(conversations, c),
                      <<request'.question, response'.answer>>)]_vars

\* a question was answered on a conversation that held 10 turns, and the
\* marked turn moved one place towards the front
C1_Witness ==
  /\ Questioned /\ response.success
  /\ request.held = 10
  /\ request.question = q_rows
  /\ Len(conversations[DefaultConv(0)]) = 10
  /\ conversations[DefaultConv(0)][9][1] = q_avg_plain

\* the executed query of the last question returned no rows
NoRows == Questioned /\ request.executed.ok /\ request.executed.v = <<>>

\* C2 (as stated): on zero rows both format_answer and the answer returned
\* are exactly the "unknown" sentinel.
C2_SentinelOnly ==
  NoRows => /\ request.formatted = wobuzhidao
            /\ response.answer = wobuzhidao

\* C2 (amended): on zero rows format_answer returns exactly the "unknown"
\* sentinel, and the answer returned and stored is the trace of the executed
\* query (its whitespace normalised) followed by exactly that sentinel, with
\* success = true.
C2_TraceThenSentinel ==
  NoRows =>
    /\ request.formatted = wobuzhidao
    /\ response.success
    /\ response.answer =
         trace_marker \o <<" ", "FENCE", "sql", "NL">> \o CleanSql(request.sql) \o
         <<"NL", "FENCE", "NL", "NL">> \o wobuzhidao
    /\ conversations[request.conversation_id][request.held + 1] =
         <<request.question, response.answer>>

\* zero rows came back with a language model configured, from the grouped
\* query of the department question
C2_Witness ==
  /\ NoRows
  /\ request.invoked = 1
  /\ request.sql = dept_avg_desc1
  /\ response.answer # wobuzhidao

\* C3 (as stated): every question on an existing dataset appends one turn
\* to its conversation, failed responses included.
C3_AlwaysAppends ==
  [][(response'.op = "query" /\ request'.known)
     => LET lst == conversations'[request'.conversation_id] IN
        /\ Len(lst) = (IF request'.held < 10 THEN request'.held + 1 ELSE 10)
        /\ lst[Len(lst)][1] = request'.question]_vars

\* C3 (amended): a question on an existing dataset that is answered with
\* success = true appends exactly one turn, (question, the answer returned);
\* one answered with success = false appends none, and the conversation
\* holds the turns it held before.
C3_AppendsOnSuccess ==
  [][(response'.op = "query" /\ request'.known)
     => conversations'[request'.conversation_id] =
          IF response'.success
          THEN Pushed(TurnsOf(conversations, request'.conversation_id),
                      <<request'.question, response'.answer>>)
          ELSE TurnsOf(conversations, request'.conversation_id)]_vars

\* a question whose query was executed and whose formatting failed: the
\* response is a failure and the conversation holds what it held
C3_Witness ==
  /\ Questioned /\ ~response.success
  /\ request.executed.ok
  /\ request.held = 1
  /\ Len(conversations[request.conversation_id]) = 1

\* C4: a question on an unknown dataset, and a fetch of an unknown
\* conversation, report not-found (404) and no other kind of response.
C4_NotFoundAtBoundary ==
  /\ (response.op = "query" /\ ~request.known) => response.status = 404
  /\ (response.op = "history" /\ response.success
      /\ response.conversation_id \notin DOMAIN conversations)
     => response.status = 404

\* C5: the query handed to execution begins with SELECT or WITH (in any
\* case), whichever tier made it.
C5_BeginsReadOnly ==
  Questioned => /\ request.sql # <<>>
                /\ request.sql[1] \in KeywordPrefixed

\* the contextual tier made the query that was executed
C5_Witness ==
  /\ Questioned
  /\ request.tier = "contextual"
  /\ request.sql = dept_avg_desc1
  /\ request.executed.ok

\* the sentence "the department with the highest average wage is Sales,
\* the average wage is 7500.50 yuan"
highest_sentence ==
  pingjungongzizuigaodebumen \o <<"shi_be", " ", "Sales", "c_comma">> \o
  pingjun \o gongzi \o <<"wei", " ", "7500.50", " ", "yuan", "c_period">>

\* C6: for "which department has the highest average wage", without the
\* generation tier, the query is the grouped average, descending, LIMIT 1,
\* and the row {department, avg_salary} is rendered as the sentence that
\* names the department and its average.
C6_HighestDepartment ==
  (/\ Questioned
   /\ request.question = q_highest_dept
   /\ ~request.generated.ok
   /\ request.executed = Returned(<<row_dept>>))
  => /\ request.sql = dept_avg_desc1
     /\ request.formatted = highest_sentence

\* C7: after a highest-average-department turn, without the generation
\* tier, "what is their average wage" is planned by the contextual tier as
\* the grouped average, descending, LIMIT 1.
C7_FollowUpGrouped ==
  (/\ Questioned
   /\ request.question = q_their_average
   /\ ~request.generated.ok
   /\ request.held = 1
   /\ conversations[request.conversation_id][1] = turn_highest)
  => /\ request.tier = "contextual"
     /\ request.sql = dept_avg_desc1

\* C8: with a language model configured, when the NL-to-query call fails
\* the heuristic tiers plan the query, when the summarisation fails or
\* returns the sentinel the answer is the formatter's, and the response
\* has success = true whenever the query was executed.
C8_FailuresRecovered ==
  (/\ Questioned
   /\ request.invoked = 1
   /\ request.executed.ok
   /\ \/ ~request.generated.ok
      \/ ~request.summarised.ok
      \/ request.summarised = Returned(wobuzhidao))
  => /\ response.success
     /\ ~request.generated.ok => request.tier \in {"heuristic", "contextual"}

\* the NL-to-query chain returned a text with no line that opens a query
NoOpeningLine ==
  /\ Questioned
  /\ request.invoked = 1
  /\ request.generated.ok
  /\ \A k \in 1..Len(Split(request.generated.v, <<"NL">>)) :
       LET line == Strip(Split(request.generated.v, <<"NL">>)[k]) IN
       line = <<>> \/ line[1] \notin KeywordPrefixed \cup {"FENCE"}

\* C9 (as stated): when the returned text has no line starting with SELECT
\* or WITH, the query is made by the heuristic table on the question.
C9_FallsToHeuristics ==
  NoOpeningLine => request.tier \in {"heuristic", "contextual"}

\* C9 (amended): when the returned text has no line starting with SELECT
\* or WITH, the generation tier itself supplies the default preview
\* SELECT * FROM data_table LIMIT 10 and the heuristic table is not used.
C9_DefaultPreview ==
  NoOpeningLine =>
    /\ request.tier = "generated_default"
    /\ request.sql = <<"SELECT", " ", "* FROM ", "data_table", " LIMIT ", "10">>

\* the chain answered in prose, the default preview was executed for a
\* question the heuristic table would have answered with a count
C9_Witness ==
  /\ NoOpeningLine
  /\ request.generated = Returned(text_no_sql)
  /\ request.question = q_rows
  /\ request.executed.ok

\* no rule of the resolver matches the question
NoRuleMatches(question) ==
  /\ ~Contains(question, <<"ta_he", "men_pl">>)
  /\ ~Contains(question, <<"ta_it">>)
  /\ ~Contains(question, <<"zhe", "ge">>)
  /\ ~Contains(question, <<"zhe", "xie">>)
  /\ \/ ~has_implicit_context_reference(question, <<"turn">>)
     \/ /\ ~Contains(Lower(question), nayinian)
        /\ ~Contains(Lower(question), shenmeshihou)
        /\ ~Contains(Lower(question), zainali)
        /\ ~Contains(Lower(question), nagedifang)

\* C10: the resolver returns the question unchanged when the history is
\* empty, and when no rule matches it.
C10_ResolverUnchanged ==
  (Questioned /\ (request.held = 0 \/ NoRuleMatches(request.question)))
  => request.processed = request.question

\* a short follow-up ("how many rows does the data have") after a fossil
\* turn: an implicit reference, but no time or place word, left unchanged
C10_Witness ==
  /\ Questioned
  /\ request.held = 1
  /\ conversations[request.conversation_id][1] = turn_fossil_llm
  /\ request.question = q_rows
  /\ has_implicit_context_reference(request.question, <<"turn">>)
  /\ request.processed = q_rows

\* the turns the conversation of the last question held when it came
HeldTurns == SubSeq(conversations[request.conversation_id], 1, request.held)

\* the narrative of a stored answer: all that follows the trace, which ends
\* two line breaks after its closing fence
NarrativePart(full_response) ==
  SubSeq(full_response,
         FindFrom(full_response, <<"FENCE">>,
                  FindFrom(full_response, <<"FENCE">>, 1) + 1) + 3,
         Len(full_response))

\* the same turns, each with the trace of another query before its narrative
Retraced(lst, sql_query) ==
  [i \in 1..Len(lst) |-> <<lst[i][1], Trace(sql_query) \o NarrativePart(lst[i][2])>>]

\* queries other than the ones the earlier turns show
OtherQueries == {total_rows, top_salary1}

\* C11: the resolved question and the context given to the summarisation
\* are the same for the history a question met and for a history with the
\* same narratives under other traces, and the answer part taken from a
\* stored answer is its narrative (compared after strip(), the whitespace
\* the extraction removes on purpose).
C11_NarrativeOnly ==
  Questioned /\ request.held > 0 =>
    /\ \A sql_query \in OtherQueries :
         /\ process_pronoun_references(request.question,
                                       Retraced(HeldTurns, sql_query))
              = request.processed
         /\ context_info(request.question, Retraced(HeldTurns, sql_query))
              = context_info(request.question, HeldTurns)
    /\ \A i \in 1..Len(HeldTurns) :
         extract_answer_from_full_response(HeldTurns[i][2])
           = Strip(NarrativePart(HeldTurns[i][2]))

\* C12: the query planned for a question that met a history is the query
\* planned for it against the same narratives under any other trace.
C12_PlanIgnoresTrace ==
  Questioned /\ request.held > 0 =>
    \A sql_query \in OtherQueries :
      PlanQuery(request.question,
                process_pronoun_references(request.question,
                                           Retraced(HeldTurns, sql_query)),
                Retraced(HeldTurns, sql_query), llm_key, request.generated).sql
        = request.sql

\* a handler that stands at, or inside, one of its external calls
AtExternalCall(r) ==
  \/ tasks[r].pc = "execute"
  \/ llm_key /\ tasks[r].pc = "generate"
  \/ llm_key /\ tasks[r].pc = "answer" /\ tasks[r].result # <<>>

\* C13: between the read of a conversation's turn list by a question and
\* its append nothing else changes the list (so no turn is lost, doubled or
\* out of order), and while a question waits on the query execution or on
\* the language model the event loop, the only way to the stores, is free
\* for other requests.
C13_SerializedNotHeld ==
  \A r \in DOMAIN tasks :
    /\ tasks[r].pc \in {"generate", "execute", "answer"} =>
         conversations[DefaultConv(0)] = tasks[r].conversation_history
    /\ AtExternalCall(r) =>
         \A o \in DOMAIN tasks \ {r} : tasks[o].pc = "queued" => ENABLED Received(o)

\* the last question was executed and rows came back
Answerable == Questioned /\ request.executed.ok /\ request.executed.v # <<>>

\* the decision table of the formatter, in its order
BranchOrder ==
  <<"count", "top_n", "max", "min", "average", "department_average", "grouped",
    "possessive", "default">>

\* the keyword predicate of a branch
KeywordMatches(branch, q) ==
  CASE branch = "count" ->
         Contains(q, duoshao) \/ Contains(q, shuliang) \/ Contains(q, <<"count">>)
    [] branch = "top_n" ->
         Contains(q, qian) /\ (Contains(q, tiao) \/ Contains(q, hang))
    [] branch = "max" -> Contains(q, zuigao) \/ Contains(q, zuida)
    [] branch = "min" -> Contains(q, zuidi) \/ Contains(q, zuixiao)
    [] branch \in {"average", "department_average"} -> Contains(q, pingjun)
    [] branch = "grouped" ->
         Contains(q, ge_each) /\ (Contains(q, bumen) \/ Contains(q, <<"fen", "zu">>))
    [] branch = "possessive" -> Contains(q, de)
    [] OTHER -> TRUE

\* the condition a branch puts on the rows before it answers
ShapeMatches(branch, result) ==
  CASE branch \in {"count", "average"} -> Len(result) = 1 /\ Len(result[1]) = 1
    [] branch = "department_average" ->
         /\ Len(result) = 1
         /\ HasKey(result[1], department)
         /\ HasKey(result[1], avg_salary)
    [] OTHER -> TRUE

\* the first branch in order whose keyword matches and, when shaped, whose
\* condition on the rows holds
FirstBranch(q, result, shaped) ==
  BranchOrder[CHOOSE i \in 1..Len(BranchOrder) :
    /\ KeywordMatches(BranchOrder[i], q)
    /\ shaped => ShapeMatches(BranchOrder[i], result)
    /\ \A j \in 1..(i - 1) :
         ~(/\ KeywordMatches(BranchOrder[j], q)
           /\ shaped => ShapeMatches(BranchOrder[j], result))]

\* the two average entries are one branch of the table
Family(branch) == IF branch = "department_average" THEN "average" ELSE branch

\* C14 (as stated): for rows that came back, the branch that produces the
\* text is the first branch of the table whose keyword predicate matches the
\* question.
C14_FirstKeywordWins ==
  Answerable =>
    /\ Family(FirstBranch(Lower(request.question), request.executed.v, TRUE))
         = Family(FirstBranch(Lower(request.question), request.executed.v, FALSE))
    /\ request.formatted =
         FormatAs(FirstBranch(Lower(request.question), request.executed.v, TRUE),
                  request.question, request.executed.v)

\* C14 (amended): the text is produced by the first branch of the table
\* whose keyword predicate matches and whose condition on the rows holds;
\* a count or average branch whose rows are not of its shape is passed over.
C14_FirstShapedWins ==
  Answerable =>
    request.formatted =
      FormatAs(FirstBranch(Lower(request.question), request.executed.v, TRUE),
               request.question, request.executed.v)

\* "how many people do they have" came back with full rows: the count
\* keyword matched, the default branch answered
C14_Witness ==
  /\ Answerable
  /\ request.question = q_their_count
  /\ Len(request.executed.v[1]) > 1
  /\ FirstBranch(Lower(request.question), request.executed.v, FALSE) = "count"
  /\ request.formatted = FormatAs("default", request.question, request.executed.v)

\* the analyzer answered the question request.question on the dataset df
GeoAnswered(question) == response.op = "analyze" /\ request.question = question

\* the genera of the dataset whose first and last appearance satisfy the
\* rule of the question, thresholds in tenths of Ma
GeoSelected(df, question) ==
  {df[i].genus : i \in
     {j \in 1..Len(df) :
        IF question = "membership"
        THEN df[j].first <= 4854 /\ df[j].last >= 4438
        ELSE df[j].first <= 4854 /\ df[j].last > 4584 /\ df[j].first > df[j].last}}

\* the rules of the three questions
GeoRules ==
  /\ GeoAnswered("longest") =>
       /\ response.answer.kind = "longest"
       /\ \E i \in 1..Len(sessions[0].df) :
            /\ response.answer.names = <<sessions[0].df[i].genus>>
            /\ \A j \in 1..Len(sessions[0].df) :
                 sessions[0].df[j].first - sessions[0].df[j].last
                   <= sessions[0].df[i].first - sessions[0].df[i].last
  /\ \A question \in {"membership", "extinct_before"} :
       GeoAnswered(question) =>
         /\ {response.answer.names[i] : i \in 1..Len(response.answer.names)}
              = GeoSelected(sessions[0].df, question)
         /\ response.answer.kind = "no_matches"
              <=> GeoSelected(sessions[0].df, question) = {}
         /\ response.answer.kind \in {"no_matches", "list"}

\* genus A (first 490, last 460) and genus B (first 480, last 450)
GeoExample == <<GenusRow("A", 4900, 4600), GenusRow("B", 4800, 4500)>>

C16_FreshDatasetId ==
  [][uploads' # uploads =>
       /\ response'.conversation_id[2] \notin DOMAIN sessions
       /\ \A c \in DOMAIN conversations :
            ~BelongsTo(c, response'.conversation_id[2])]_vars

\* the lines of the returned text as the sanitizer sees them: fences
\* removed, split at line breaks, each stripped
StrippedLines(lines) == [i \in 1..Len(lines) |-> Strip(lines[i])]

GeneratedLines(text) ==
  StrippedLines(Split(Strip(Replace(Replace(text, <<"FENCE", "sql">>, <<>>),
                                    <<"FENCE">>, <<>>)),
                      <<"NL">>))

\* the first line at or after n that opens a statement (opening) or that
\* ends with the terminator, 0 when there is none
RECURSIVE FirstFrom(_, _, _)
FirstFrom(lines, n, opening) ==
  IF n > Len(lines) THEN 0
  ELSE IF \/ opening /\ StartsWithKeyword(lines[n])
          \/ ~opening /\ lines[n] # <<>> /\ lines[n][Len(lines[n])] = ";"
       THEN n
       ELSE FirstFrom(lines, n + 1, opening)

\* sql begins with the opening line a, holds the terminated line b and no
\* line after b
EndsAtTerminator(lines, a, b, sql) ==
  b # 0 =>
    /\ StartsWith(sql, lines[a])
    /\ Contains(sql, lines[b])
    /\ \A i \in (b + 1)..Len(lines) : lines[i] # <<>> => ~Contains(sql, lines[i])

SingleStatement(lines, a, sql) ==
  EndsAtTerminator(lines, a, FirstFrom(lines, a, FALSE), sql)

\* C17: the query the generation tier makes of a returned text begins with
\* the first line that starts with SELECT or WITH, runs to the first line
\* from there that ends with ";" and has no text of any later line.
C17_SingleStatement ==
  Questioned /\ request.generated.ok /\ request.tier = "generated" =>
    SingleStatement(GeneratedLines(request.generated.v),
                    FirstFrom(GeneratedLines(request.generated.v), 1, TRUE),
                    request.sql)

\* C18: whenever rows came back, whatever their values, format_answer
\* returns a text and the response has success = true.
C18_FormatterNeverRaises ==
  Answerable => request.formatted # ValueError /\ response.success

\* C19: every stored conversation is a conversation of a dataset in the
\* store, and a question asked of one dataset with the id of another
\* dataset's conversation cannot change that conversation.
C19_ConversationsOfLiveDatasets ==
  /\ \A c \in DOMAIN conversations :
       \E n \in DOMAIN sessions : BelongsTo(c, n)
  /\ \A n \in DOMAIN sessions, c \in DOMAIN conversations :
       ~BelongsTo(c, n) =>
         ~ENABLED (/\ query_data(n, c, q_rows, Raised, Raised)
                   /\ conversations'[c] # conversations[c])
====
